---- MODULE Spec2Model ----
(***************************************************************************)
(* A model of es6-promise: the promise state machine, the resolving        *)
(* functions, `then` and the reaction jobs (lib/promise.js) and the job    *)
(* queue (lib/queue.js).                                                   *)
(*                                                                         *)
(* JavaScript is single threaded and runs every call to completion.  A     *)
(* step of the model is either one call made by user code between two      *)
(* drains of the queue (new Promise, a resolving function kept by the      *)
(* user, then), or one invocation of a callback handed to asap, that is    *)
(* one whole call of Queue.prototype.run.                                  *)
(* The functions of the source are operators from a program state (a       *)
(* record holding every variable) to the program state after the call.     *)
(***************************************************************************)
EXTENDS Integers, Sequences, FiniteSets, TLC

VARIABLES
    state,             \* promise id -> promise._state
    result,            \* promise id -> promise._result
    fulfillReactions,  \* promise id -> promise._fulfillReactions
    rejectReactions,   \* promise id -> promise._rejectReactions
    known,             \* promise id -> user code holds a reference to the promise
    pairPromise,       \* resolving pair id -> the promise the closure is bound to
    alreadyResolved,   \* resolving pair id -> alreadyResolved.value
    leaked,            \* resolving pair id -> user code kept the two functions
    jobs,              \* promiseJobs.jobs
    running,           \* promiseJobs.running
    asap,              \* number of callbacks handed to asap and not yet invoked
    calls,             \* history: every invocation of a handler passed to then
    drains,            \* history: number of drains started so far
    thenInfo,          \* history: promise id -> the then call that created it
    ctorInfo,          \* history: promise id -> how the constructor call went
    pairFirst,         \* history: resolving pair id -> the first call of one of its functions
    settledAt,         \* history: promise id -> when the promise was settled
    enqueued,          \* history: number of the enqueue call -> when it was made
    executed,          \* history: the jobs run, in the order run, and when
    assertFailed,      \* history: an assert of the source has failed
    uncaught,          \* history: an exception has left Queue.prototype.run
    world              \* the values the user code of this run passes around

vars == <<state, result, fulfillReactions, rejectReactions, known, pairPromise,
          alreadyResolved, leaked, jobs, running, asap, calls, drains,
          thenInfo, ctorInfo, pairFirst, settledAt, enqueued, executed,
          assertFailed, uncaught,
          world>>

(***************************************************************************)
(* Bounds of the model.                                                    *)
(***************************************************************************)
MaxPromises == 3   \* promise objects ever allocated
MaxPairs == 4      \* resolving-function pairs ever created
MaxExecOps == 2    \* resolve/reject calls an executor makes synchronously
MaxAdopting == 2   \* further promises and pairs where a handler returns a promise
MaxThens == 2      \* then calls user code makes

(***************************************************************************)
(* lib/constant.js                                                         *)
(***************************************************************************)
PENDING == "pending"
REJECTED == "reject"
FULFILLED == "fulfilled"
\* the value of this._state between `this._state = undefined` and initializePromise
UNDEFINED == "undefined"

(***************************************************************************)
(* JavaScript values.  type is what typeof answers; kind and id tell the   *)
(* values of one type apart.                                               *)
(***************************************************************************)
Val(type, kind, id) == [type |-> type, kind |-> kind, id |-> id]
Undefined == Val("undefined", "undefined", 0)
Null == Val("object", "null", 0)
Num(n) == Val("number", "number", n)
NaN == Val("number", "NaN", 0)
\* a string; the strings the model needs are told apart by id
Str(n) == Val("string", "string", n)
\* an Error object made by user code
Err(n) == Val("object", "error", n)
\* new TypeError('You cannot resolve a promise with itself')
SelfResolutionError == Val("object", "selfResolutionError", 0)
\* a promise of this library
Prom(p) == Val("object", "promise", p)
\* an object of user code; kind names what its `then` property does
Obj(kind) == Val("object", kind, 0)
\* a function of user code that carries a `then` property
Fun(kind) == Val("function", kind, 0)

(***************************************************************************)
(* User code.  An executor, or the `then` of a user thenable, is a list of *)
(* calls of the two functions it is given, possibly followed by a throw;   *)
(* it may also keep the two functions and call them in a later turn.       *)
(***************************************************************************)
TheError == Err(1)       \* what user code throws
X == Str(1)              \* the string 'x'
XY == Str(2)             \* the string 'xy'
GetterError == Err(2)    \* what a throwing `then` getter throws
Answer == Num(42)        \* what the resolving thenable passes to its first argument

Call1(fn, arg) == [fn |-> fn, arg |-> arg]
Behaviour(ops, throws, keeps) == [ops |-> ops, throws |-> throws, keeps |-> keeps]

\* the kinds of user object (or function) handed to resolve, by what `then` is
ThenableKinds == {"thenResolves", "thenThrows", "thenResolvesThrows", "thenKeeps"}
ObjectKinds == ThenableKinds \cup {"plain", "getterThrows"}

\* what calling resolution.then(resolve, reject) does, for a user thenable
ThenBehaviour(kind) ==
    CASE kind = "thenResolves" -> Behaviour(<<Call1("resolve", Answer)>>, FALSE, FALSE)
      [] kind = "thenThrows" -> Behaviour(<<>>, TRUE, FALSE)
      [] kind = "thenResolvesThrows" -> Behaviour(<<Call1("resolve", Answer)>>, TRUE, FALSE)
      [] kind = "thenKeeps" -> Behaviour(<<>>, FALSE, TRUE)

\* a Get that never ends abruptly
GetThenNeverAbrupt(v) ==
    IF v.kind = "promise" \/ v.kind \in ThenableKinds THEN "function" ELSE "other"

\* Get(resolution, "then"): "abrupt" when the getter throws, "function" when the
\* property is callable, "other" when it is anything else
GetThen(v) ==
    IF v.kind = "getterThrows" THEN "abrupt"
    ELSE IF v.kind = "promise" \/ v.kind \in ThenableKinds THEN "function"
    ELSE "other"

\* the handlers passed to then; "none" is a non-callable argument (undefined)
Handler(kind, val, pair) == [kind |-> kind, val |-> val, pair |-> pair]
NoHandler == Handler("none", Undefined, 0)
Returns(v) == Handler("return", v, 0)
Throws(v) == Handler("throw", v, 0)
\* function (v) { return v + 1; }
PlusOneHandler == Handler("plusOne", Undefined, 0)

\* v + c in JavaScript (v + 1, r + 'y'): a number for a number, undefined or
\* null, and a string concatenation for anything else: the string after v for a
\* string v, a string of its own for an object; a primitive value in every case
PlusOne(v) ==
    CASE v.kind = "number" -> Num(v.id + 1)
      [] v.kind = "null" -> Num(1)
      [] v.kind \in {"undefined", "NaN"} -> NaN
      [] v.kind = "string" -> Str(v.id + 1)
      [] OTHER -> Str(9)

(***************************************************************************)
(* src/utils.js                                                            *)
(***************************************************************************)
\* `!x`
Falsy(v) ==
    \/ v.kind \in {"undefined", "null", "NaN"}
    \/ v.type \in {"number", "string"} /\ v.id = 0

\* a comparison that finds no two values the same
sameValueNever(x, y) == FALSE

sameValue(x, y) ==
    IF x.type # y.type THEN FALSE
    ELSE IF x.kind \in {"undefined", "null"} THEN TRUE
    ELSE x = y

isCallable(h) == h.kind # "none"

(***************************************************************************)
(* The program state as one record, and the lists of a promise.            *)
(***************************************************************************)
State ==
    [state |-> state, result |-> result, fulfillReactions |-> fulfillReactions,
     rejectReactions |-> rejectReactions, known |-> known,
     pairPromise |-> pairPromise, alreadyResolved |-> alreadyResolved,
     leaked |-> leaked, jobs |-> jobs, running |-> running, asap |-> asap,
     calls |-> calls, drains |-> drains, thenInfo |-> thenInfo,
     ctorInfo |-> ctorInfo, pairFirst |-> pairFirst, settledAt |-> settledAt,
     enqueued |-> enqueued, executed |-> executed,
     assertFailed |-> assertFailed, uncaught |-> uncaught, world |-> world,
     \* not variables: what the call in progress returns, whether it has
     \* ended with an exception, and the exception
     ret |-> 0, exc |-> FALSE, err |-> Undefined]

Commit(s) ==
    /\ state' = s.state
    /\ result' = s.result
    /\ fulfillReactions' = s.fulfillReactions
    /\ rejectReactions' = s.rejectReactions
    /\ known' = s.known
    /\ pairPromise' = s.pairPromise
    /\ alreadyResolved' = s.alreadyResolved
    /\ leaked' = s.leaked
    /\ jobs' = s.jobs
    /\ running' = s.running
    /\ asap' = s.asap
    /\ calls' = s.calls
    /\ drains' = s.drains
    /\ thenInfo' = s.thenInfo
    /\ ctorInfo' = s.ctorInfo
    /\ pairFirst' = s.pairFirst
    /\ settledAt' = s.settledAt
    /\ enqueued' = s.enqueued
    /\ executed' = s.executed
    /\ assertFailed' = s.assertFailed
    /\ uncaught' = s.uncaught
    /\ world' = s.world

\* a reaction list: an array, or undefined once the promise has settled
List(items) == [defined |-> TRUE, items |-> items]
UndefinedList == [defined |-> FALSE, items |-> <<>>]

Capability(p, k) == [promise |-> p, pair |-> k]
Reaction(cap, handler, side) == [capabilities |-> cap, handler |-> handler, side |-> side]

\* ticket is history: the number of the enqueue call that pushed the job
ReactionJob(reaction, arg) ==
    [type |-> "reaction", reaction |-> reaction, arg |-> arg, promise |-> 0,
     resolution |-> Undefined, ticket |-> 0]
ThenableJob(p, resolution) ==
    [type |-> "thenable",
     reaction |-> Reaction(Capability(0, 0), NoHandler, "none"),
     arg |-> Undefined, promise |-> p, resolution |-> resolution, ticket |-> 0]

\* history: the moment of a call: the drains started so far, and whether the
\* call is made from inside a drain
Moment(s) == [drains |-> s.drains, running |-> s.running]
NoMoment == [drains |-> 0 - 1, running |-> FALSE]

(***************************************************************************)
(* lib/queue.js                                                            *)
(***************************************************************************)
Ticketed(job, n) == [job EXCEPT !.ticket = n]

\* an enqueue that puts the job in front of the waiting ones
enqueueFirst(s, job) ==
    [s EXCEPT !.asap = IF ~s.running THEN @ + 1 ELSE @,
              !.jobs = <<Ticketed(job, Len(s.enqueued) + 1)>> \o @,
              !.enqueued = Append(@, Moment(s))]

enqueue(s, job) ==
    [s EXCEPT !.asap = IF ~s.running THEN @ + 1 ELSE @,
              !.jobs = Append(@, Ticketed(job, Len(s.enqueued) + 1)),
              !.enqueued = Append(@, Moment(s))]

(***************************************************************************)
(* lib/promise.js: the two transitions and the resolving functions.        *)
(***************************************************************************)
\* history: how often the state of the promise p has left pending, the moment
\* of the last time, and the pair whose function did it
Settled(s, p) ==
    [drains |-> s.drains, running |-> s.running, count |-> s.settledAt[p].count + 1,
     pair |-> 0]
NeverSettled == [drains |-> 0 - 1, running |-> FALSE, count |-> 0, pair |-> 0]

\* the reaction a job of triggerPromiseReactions reads when it runs: `reaction`
\* is a var of the enclosing function, shared by the closures of every
\* iteration, and no job runs before the loop has ended
CapturedReaction(reactions, i) == reactions[Len(reactions)]

RECURSIVE triggerLoop(_, _, _, _)
triggerLoop(s, reactions, arg, i) ==
    IF i > Len(reactions) THEN s
    ELSE triggerLoop(enqueue(s, ReactionJob(CapturedReaction(reactions, i), arg)),
                     reactions, arg, i + 1)

triggerPromiseReactions(s, reactions, arg) == triggerLoop(s, reactions.items, arg, 1)

\* a fulfillPromise that leaves the two reaction lists in place
fulfillPromiseKeepsLists(s, p, value) ==
    IF s.state[p] # PENDING THEN [s EXCEPT !.assertFailed = TRUE]
    ELSE triggerPromiseReactions(
             [s EXCEPT !.result[p] = value,
                       !.state[p] = FULFILLED,
                       !.settledAt[p] = Settled(s, p)],
             s.fulfillReactions[p], value)

fulfillPromise(s, p, value) ==
    IF s.state[p] # PENDING THEN [s EXCEPT !.assertFailed = TRUE]
    ELSE triggerPromiseReactions(
             [s EXCEPT !.result[p] = value,
                       !.fulfillReactions[p] = UndefinedList,
                       !.rejectReactions[p] = UndefinedList,
                       !.state[p] = FULFILLED,
                       !.settledAt[p] = Settled(s, p)],
             s.fulfillReactions[p], value)

rejectPromise(s, p, reason) ==
    IF s.state[p] # PENDING THEN [s EXCEPT !.assertFailed = TRUE]
    ELSE triggerPromiseReactions(
             [s EXCEPT !.result[p] = reason,
                       !.fulfillReactions[p] = UndefinedList,
                       !.rejectReactions[p] = UndefinedList,
                       !.state[p] = REJECTED,
                       !.settledAt[p] = Settled(s, p)],
             s.rejectReactions[p], reason)

\* a flag that never stops a resolving function
UnresolvedAlways(s, k) == TRUE

\* the value of alreadyResolved.value that lets a resolving function act
Unresolved(s, k) == ~s.alreadyResolved[k]

\* history: the first call made on the pair k, and the state of its promise
\* when that call returned; again: the first call was a resolve that left the
\* promise pending, and a function of the pair has been called after it; jobs:
\* the number of enqueue calls made before the first call returned
FirstCall(fn, arg, at, after, resultAfter) ==
    [fn |-> fn, arg |-> arg, at |-> at, after |-> after, resultAfter |-> resultAfter,
     again |-> FALSE, jobs |-> 0]
NoCall == FirstCall("none", Undefined, NoMoment, UNDEFINED, Undefined)
NoteCall(s, k, fn, arg) ==
    IF s.pairFirst[k].fn # "none"
    THEN [s EXCEPT !.pairFirst[k].again =
              @ \/ (s.pairFirst[k].fn = "resolve" /\ s.pairFirst[k].after = PENDING)]
    ELSE [s EXCEPT !.pairFirst[k] = FirstCall(fn, arg, Moment(s), UNDEFINED, Undefined)]
NoteSettled(before, s, k) ==
    IF before.settledAt[s.pairPromise[k]].count = s.settledAt[s.pairPromise[k]].count
    THEN s
    ELSE [s EXCEPT !.settledAt[s.pairPromise[k]].pair = k]
NoteReturn(before, s, k) ==
    IF before.pairFirst[k].fn # "none" THEN NoteSettled(before, s, k)
    ELSE [NoteSettled(before, s, k) EXCEPT
              !.pairFirst[k].after = s.state[s.pairPromise[k]],
              !.pairFirst[k].resultAfter = s.result[s.pairPromise[k]],
              !.pairFirst[k].jobs = Len(s.enqueued) - Len(before.enqueued)]

\* a resolve that stores its argument whatever the flag and the state are
resolveBodyOverwrites(s, k, resolution) ==
    [s EXCEPT !.state[s.pairPromise[k]] = FULFILLED,
              !.result[s.pairPromise[k]] = resolution]

\* the body of the function resolve of the pair k
resolveBody(s, k, resolution) ==
    IF ~Unresolved(s, k) THEN s
    ELSE LET p == s.pairPromise[k]
             s1 == [s EXCEPT !.alreadyResolved[k] = TRUE]
         IN IF sameValue(resolution, Prom(p))
               THEN rejectPromise(s1, p, SelfResolutionError)
            ELSE IF Falsy(resolution) \/ resolution.type # "object"
               THEN fulfillPromise(s1, p, resolution)
            ELSE IF GetThen(resolution) = "abrupt"
               THEN rejectPromise(s1, p, GetterError)
            ELSE IF GetThen(resolution) # "function"
               THEN fulfillPromise(s1, p, resolution)
            ELSE enqueue(s1, ThenableJob(p, resolution))

\* a reject that stores its argument whatever the flag and the state are
rejectBodyOverwrites(s, k, reason) ==
    [s EXCEPT !.state[s.pairPromise[k]] = REJECTED,
              !.result[s.pairPromise[k]] = reason]

\* a reject that does not look at the flag
rejectBodyUnguarded(s, k, reason) ==
    rejectPromise([s EXCEPT !.alreadyResolved[k] = TRUE], s.pairPromise[k], reason)

\* the body of the function reject of the pair k
rejectBody(s, k, reason) ==
    IF ~Unresolved(s, k) THEN s
    ELSE rejectPromise([s EXCEPT !.alreadyResolved[k] = TRUE], s.pairPromise[k], reason)

\* a call of the function resolve of the pair k
resolve(s, k, resolution) ==
    NoteReturn(s, resolveBody(NoteCall(s, k, "resolve", resolution), k, resolution), k)

\* a call of the function reject of the pair k
reject(s, k, reason) ==
    NoteReturn(s, rejectBody(NoteCall(s, k, "reject", reason), k, reason), k)

createResolvingFunctions(s, p) ==
    [s EXCEPT !.pairPromise = Append(@, p),
              !.alreadyResolved = Append(@, FALSE),
              !.leaked = Append(@, FALSE),
              !.pairFirst = Append(@, NoCall)]

\* the calls user code makes, in order, on the two functions of the pair k
RECURSIVE ApplyCalls(_, _, _, _)
ApplyCalls(s, k, ops, i) ==
    IF i > Len(ops) THEN s
    ELSE ApplyCalls(IF ops[i].fn = "resolve" THEN resolve(s, k, ops[i].arg)
                    ELSE reject(s, k, ops[i].arg),
                    k, ops, i + 1)

(***************************************************************************)
(* lib/promise.js: the constructor.                                        *)
(***************************************************************************)
Executor(callable, ops, throws, keeps) ==
    [callable |-> callable, ops |-> ops, throws |-> throws, keeps |-> keeps]
\* function (resolve, reject) { promiseCapability.resolve = resolve; ... }
CapabilityExecutor == Executor(TRUE, <<>>, FALSE, FALSE)

\* history of a then call: the receiver and its state and result before and
\* after the call, the promise returned and the number of promises that existed
\* before the call, the two arguments, the moment
ThenInfo(source, st0, res0, st1, res1, returned, existing, onF, onR, at) ==
    [source |-> source, state |-> st0, result |-> res0,
     stateAfter |-> st1, resultAfter |-> res1, returned |-> returned,
     existing |-> existing, onFulfilled |-> onF, onRejected |-> onR, at |-> at]
NoThen == ThenInfo(0, UNDEFINED, Undefined, UNDEFINED, Undefined, 0, 0, NoHandler,
                   NoHandler, NoMoment)
\* history of a constructor call: whether initializePromise was reached, whether
\* the call ended with an exception, what the executor did, the pair created
CtorInfo(initialized, threw, error, executor, pair) ==
    [initialized |-> initialized, threw |-> threw, error |-> error,
     callable |-> executor.callable, executorThrew |-> executor.throws,
     calls |-> Len(executor.ops), pair |-> pair]

\* the object `new` makes, after `this._state = undefined`
allocate(s) ==
    [s EXCEPT !.state = Append(@, UNDEFINED),
              !.result = Append(@, Undefined),
              !.fulfillReactions = Append(@, UndefinedList),
              !.rejectReactions = Append(@, UndefinedList),
              !.known = Append(@, FALSE),
              !.thenInfo = Append(@, NoThen),
              !.settledAt = Append(@, NeverSettled),
              !.ctorInfo = Append(@, CtorInfo(FALSE, FALSE, Undefined, CapabilityExecutor, 0))]

\* what initializePromise does when the call of the executor ends abruptly:
\* step 8 is not implemented, the exception leaves the constructor
ExecutorThrew(s, k, err) == [s EXCEPT !.exc = TRUE, !.err = err]

initializePromise(s, p, executor) ==
    LET s1 == [s EXCEPT !.state[p] = PENDING,
                        !.fulfillReactions[p] = List(<<>>),
                        !.rejectReactions[p] = List(<<>>)]
        s2 == createResolvingFunctions(s1, p)
        k == Len(s2.pairPromise)
        s3 == ApplyCalls([s2 EXCEPT !.leaked[k] = executor.keeps], k, executor.ops, 1)
        s4 == IF executor.throws THEN ExecutorThrew(s3, k, TheError) ELSE s3
    IN [s4 EXCEPT !.ctorInfo[p] = CtorInfo(TRUE, s4.exc, s4.err, executor, k)]

\* var fmt = require('util').format(): the empty string
fmt == Str(0)
\* new TypeError(fmt('%s is not a function', executor)), and the TypeError the
\* call of something that is not a function throws
NotAFunctionError == Val("object", "typeError", 1)
NotCallableError == Val("object", "typeError", 2)
\* throw new TypeError(fmt(...)): fmt is called before the error is made
ThrowTypeError(s) ==
    [s EXCEPT !.exc = TRUE,
              !.err = IF fmt.type = "function" THEN NotAFunctionError
                      ELSE NotCallableError]

\* a constructor that calls initializePromise whatever the executor is
PromiseUnchecked(s, executor) ==
    initializePromise(allocate(s), Len(s.state) + 1, executor)

\* function Promise(executor), called with new; a non-callable executor makes
\* it throw a TypeError
Promise(s, executor) ==
    LET p == Len(s.state) + 1
        s1 == allocate(s)
    IN IF ~executor.callable
       THEN LET s2 == ThrowTypeError(s1)
            IN [s2 EXCEPT !.ctorInfo[p] = CtorInfo(FALSE, s2.exc, s2.err, executor, 0)]
       ELSE initializePromise(s1, p, executor)

(***************************************************************************)
(* lib/promise.js: the reaction job.                                       *)
(***************************************************************************)
Outcome(s, threw, value) == [s |-> s, threw |-> threw, value |-> value]

\* reaction(result): the call of the handler of a reaction
InvokeHandler(s, h, arg) ==
    CASE h.kind = "return" -> Outcome(s, FALSE, h.val)
      [] h.kind = "plusOne" -> Outcome(s, FALSE, PlusOne(arg))
      [] h.kind = "throw" -> Outcome(s, TRUE, h.val)
      [] h.kind = "resolveCaptured" -> Outcome(resolve(s, h.pair, h.val), FALSE, Undefined)
      [] h.kind = "rejectCaptured" -> Outcome(reject(s, h.pair, h.val), FALSE, Undefined)
      [] h.kind = "resolveFn" -> Outcome(resolve(s, h.pair, arg), FALSE, Undefined)
      [] h.kind = "rejectFn" -> Outcome(reject(s, h.pair, arg), FALSE, Undefined)

\* a job without a catch clause: the exception leaves it
HandlerNotCaught(s, k, err) == [s EXCEPT !.uncaught = TRUE]

\* the catch clause of promiseReactionJob
HandlerThrew(s, k, err) == reject(s, k, err)

\* a job that rejects with what the handler returns
promiseReactionJobRejects(s, k, handler, arg) ==
    LET r == InvokeHandler(s, handler, arg)
    IN reject(r.s, k, r.value)

\* k is the pair whose functions are the arguments resolve and reject
promiseReactionJob(s, k, handler, arg) ==
    LET r == InvokeHandler(s, handler, arg)
        s1 == IF r.threw THEN HandlerThrew(r.s, k, r.value) ELSE r.s
        handlerResult == IF r.threw THEN Undefined ELSE r.value
    IN IF s1.uncaught THEN s1 ELSE resolve(s1, k, handlerResult)

\* history: the handler of a reaction is about to be invoked
Invoked(s, reaction, arg) ==
    [s EXCEPT !.calls = Append(@,
         [then |-> reaction.capabilities.promise, side |-> reaction.side,
          handler |-> reaction.handler, arg |-> arg, at |-> Moment(s)])]

(***************************************************************************)
(* lib/promise.js: then.                                                   *)
(***************************************************************************)
newPromiseCapability(s) == Promise(s, CapabilityExecutor)

\* the value the default handlers pass on: `var result = promise._result`, read
\* when then is called
CapturedResult(s, p) == s.result[p]

\* a then that hands back its receiver
performPromiseThenReturnsReceiver(s, p, onFulfilled, onRejected, resultCapability) ==
    [s EXCEPT !.ret = p]

\* a then that runs the reaction of a settled promise before it returns
performPromiseThenSync(s, p, onFulfilled, onRejected, resultCapability) ==
    LET side == IF s.state[p] = REJECTED THEN "reject" ELSE "fulfill"
        h == IF side = "reject" THEN onRejected ELSE onFulfilled
        reaction == Reaction(resultCapability, h, side)
        s1 == IF s.state[p] = PENDING \/ ~isCallable(h) THEN s
              ELSE promiseReactionJob(Invoked(s, reaction, s.result[p]),
                                      resultCapability.pair, h, s.result[p])
    IN [s1 EXCEPT !.ret = resultCapability.promise]

performPromiseThen(s, p, onFulfilled, onRejected, resultCapability) ==
    LET res == CapturedResult(s, p)
        onF == IF ~isCallable(onFulfilled)
               THEN Handler("resolveCaptured", res, resultCapability.pair)
               ELSE onFulfilled
        onR == IF ~isCallable(onRejected)
               THEN Handler("rejectCaptured", res, resultCapability.pair)
               ELSE onRejected
        fulfillReaction == Reaction(resultCapability, onF, "fulfill")
        rejectReaction == Reaction(resultCapability, onR, "reject")
        s1 == CASE s.state[p] = PENDING ->
                      [s EXCEPT !.fulfillReactions[p].items = Append(@, fulfillReaction),
                                !.rejectReactions[p].items = Append(@, rejectReaction)]
                 [] s.state[p] = FULFILLED ->
                      enqueue(s, ReactionJob(fulfillReaction, s.result[p]))
                 [] s.state[p] = REJECTED ->
                      enqueue(s, ReactionJob(rejectReaction, s.result[p]))
                 [] OTHER -> s
    IN [s1 EXCEPT !.ret = resultCapability.promise]

\* Promise.prototype.then; d is the promise newPromiseCapability makes, s.ret
\* afterwards the promise the call returns
then(s, p, onFulfilled, onRejected) ==
    LET d == Len(s.state) + 1
        k == Len(s.pairPromise) + 1
        s1 == newPromiseCapability(s)
        s2 == performPromiseThen(s1, p, onFulfilled, onRejected, Capability(d, k))
    IN [s2 EXCEPT !.thenInfo[d] =
            ThenInfo(p, s.state[p], s.result[p], s2.state[p], s2.result[p], s2.ret,
                     Len(s.state), onFulfilled, onRejected, Moment(s))]

(***************************************************************************)
(* lib/promise.js: the jobs.                                               *)
(***************************************************************************)
\* a thenable job without a catch clause: the exception leaves it
ThenNotCaught(s, k, err) == [s EXCEPT !.uncaught = TRUE]

\* a thenable job whose catch clause does nothing
ThenThrewIgnored(s, k, err) == s

\* the catch clause of promiseResolveThenableJob
ThenThrew(s, k, err) == reject(s, k, err)

promiseResolveThenableJob(s, p, resolution) ==
    LET s1 == createResolvingFunctions(s, p)
        k == Len(s1.pairPromise)
    IN IF resolution.kind = "promise"
       THEN then(s1, resolution.id, Handler("resolveFn", Undefined, k),
                 Handler("rejectFn", Undefined, k))
       ELSE LET b == ThenBehaviour(resolution.kind)
                s2 == ApplyCalls([s1 EXCEPT !.leaked[k] = b.keeps], k, b.ops, 1)
            IN IF b.throws THEN ThenThrew(s2, k, TheError) ELSE s2

\* history: the job begins to run
Begun(s, job) ==
    [s EXCEPT !.executed = Append(@, [ticket |-> job.ticket, at |-> Moment(s),
                                      job |-> job])]

\* jobs[i](): one job of the queue, with the history of handler invocations
RunOneJob(s, job) ==
    IF job.type = "thenable"
    THEN promiseResolveThenableJob(Begun(s, job), job.promise, job.resolution)
    ELSE promiseReactionJob(Invoked(Begun(s, job), job.reaction, job.arg),
                            job.reaction.capabilities.pair, job.reaction.handler,
                            job.arg)

\* a loop over the n jobs that were waiting when the drain began
RECURSIVE runLoopUpTo(_, _, _)
runLoopUpTo(s, i, n) ==
    IF i < n /\ ~s.uncaught THEN runLoopUpTo(RunOneJob(s, s.jobs[i + 1]), i + 1, n)
    ELSE s
runLoopSnapshot(s, i) == runLoopUpTo(s, i, Len(s.jobs))

\* the loop of run: jobs is the array enqueue pushes to, and its length is read
\* again before every iteration
RECURSIVE runLoop(_, _)
runLoop(s, i) ==
    IF i < Len(s.jobs) /\ ~s.uncaught THEN runLoop(RunOneJob(s, s.jobs[i + 1]), i + 1)
    ELSE s

\* Queue.prototype.run; an exception of a job leaves it at once
run(s) ==
    IF s.running THEN s
    ELSE LET s1 == runLoop([s EXCEPT !.running = TRUE, !.drains = @ + 1], 0)
         IN IF s1.uncaught THEN s1
            ELSE [s1 EXCEPT !.jobs = <<>>, !.running = FALSE]

(***************************************************************************)
(* What the promises and pairs already created may still need: a job that  *)
(* adopts a promise calls its then (one promise, and a pair for each of    *)
(* the job and the derived promise); a job that calls a user thenable      *)
(* creates one pair.  User code only makes calls whose consequences fit    *)
(* the bounds.                                                             *)
(***************************************************************************)
NeedPromises(v) == IF v.kind = "promise" THEN 1 ELSE 0
NeedPairs(v) ==
    IF v.kind = "promise" THEN 2
    ELSE IF v.type = "object" /\ v.kind \in ThenableKinds THEN 1
    ELSE 0
Passed(h) == IF h.kind = "return" THEN h.val ELSE Undefined

Max2(a, b) == IF a > b THEN a ELSE b

\* what: "promises" or "pairs"
Need(what, v) == IF what = "promises" THEN NeedPromises(v) ELSE NeedPairs(v)

RECURSIVE MaxOver(_, _, _)
MaxOver(what, items, i) ==
    IF i > Len(items) THEN 0
    ELSE Max2(Need(what, Passed(items[i].handler)), MaxOver(what, items, i + 1))

RECURSIVE SumJobs(_, _, _)
SumJobs(what, js, i) ==
    IF i > Len(js) THEN 0
    ELSE (IF js[i].type = "thenable" THEN Need(what, js[i].resolution)
          ELSE Need(what, Passed(js[i].reaction.handler)))
         + SumJobs(what, js, i + 1)

RECURSIVE SumLists(_, _, _)
SumLists(what, s, p) ==
    IF p > Len(s.state) THEN 0
    ELSE Len(s.fulfillReactions[p].items)
           * Max2(MaxOver(what, s.fulfillReactions[p].items, 1),
                  MaxOver(what, s.rejectReactions[p].items, 1))
         + SumLists(what, s, p + 1)

\* the number of promises and of pairs the run may create
PromisesCap(w) == IF w = "adopt" THEN MaxPromises + MaxAdopting ELSE MaxPromises
PairsCap(w) == IF w = "adopt" THEN MaxPairs + MaxAdopting ELSE MaxPairs

Fits(s) ==
    /\ Len(s.state) + SumJobs("promises", s.jobs, 1) + SumLists("promises", s, 1)
         <= PromisesCap(s.world)
    /\ Len(s.pairPromise) + SumJobs("pairs", s.jobs, 1) + SumLists("pairs", s, 1)
         <= PairsCap(s.world)

(***************************************************************************)
(* The inputs of user code.  The user code of one run passes around the    *)
(* values of one world, and the promises it holds.                         *)
(***************************************************************************)
Known(s) == {p \in 1..Len(s.state) : s.known[p]}
Leaked(s) == {k \in 1..Len(s.pairPromise) : s.leaked[k]}

\* "settle": one promise is constructed, its executor calls the resolving
\*            functions with plain values and may throw
\* "handlers": one promise is constructed and chained with callable handlers
\* "thenables": one promise is constructed and resolved with user thenables
\* "promises": two promises are constructed and resolved with promises
\* "adopt": two promises are constructed, and handlers return them
\* "abrupt": two promises are constructed and resolved with objects whose
\*           then throws, or cannot be read
\* "functions": one promise is constructed and resolved with a function that
\*              has a then
Worlds == {"settle", "handlers", "thenables", "promises", "adopt", "abrupt",
           "functions"}
WorldValues(w) ==
    CASE w = "settle" -> {Num(1), Num(2), Null}
      [] w = "handlers" -> {Num(1)}
      [] w = "thenables" -> {Num(1), Obj("thenResolves"), Obj("thenKeeps")}
      [] w = "promises" -> {Num(1)}
      [] w = "adopt" -> {Num(1)}
      [] w = "abrupt" -> {Obj("thenThrows"), Obj("thenResolvesThrows"),
                          Obj("getterThrows")}
      [] w = "functions" -> {Fun("thenResolves")}
WorldHandlers(w) ==
    CASE w = "settle" -> {NoHandler}
      [] w = "handlers" -> {NoHandler, Throws(TheError), PlusOneHandler}
      [] w = "thenables" -> {NoHandler, Returns(Obj("thenResolves"))}
      [] w = "promises" -> {NoHandler}
      [] w = "adopt" -> {NoHandler}
      [] w = "abrupt" -> {NoHandler}
      [] w = "functions" -> {NoHandler}
\* the number of promises user code constructs with new
WorldRoots(w) == IF w \in {"promises", "adopt", "abrupt"} THEN 2 ELSE 1

Roots(s) == {p \in 1..Len(s.state) : s.thenInfo[p].source = 0}

ResolveArgs(s) ==
    WorldValues(s.world)
      \cup (IF s.world = "promises" THEN {Prom(p) : p \in Known(s)} ELSE {})
RejectArgs(s) == IF s.world = "handlers" THEN {X} ELSE {TheError}
CallsOf(s) ==
    {Call1("resolve", v) : v \in ResolveArgs(s)} \cup {Call1("reject", v) : v \in RejectArgs(s)}

RECURSIVE SeqsUpTo(_, _)
SeqsUpTo(S, n) ==
    IF n = 0 THEN {<<>>}
    ELSE LET shorter == SeqsUpTo(S, n - 1)
         IN shorter \cup {Append(q, x) : q \in {r \in shorter : Len(r) = n - 1}, x \in S}

\* an executor keeps the two functions it is given; in "settle" it may also
\* call them and throw, or not be callable at all; in "adopt" it either keeps
\* them or calls resolve(1)
Executors(s) ==
    CASE s.world = "settle" ->
           {Executor(FALSE, <<>>, FALSE, FALSE)}
             \cup {Executor(TRUE, ops, throws, TRUE) :
                     ops \in SeqsUpTo(CallsOf(s), MaxExecOps), throws \in BOOLEAN}
      [] s.world = "adopt" ->
           {Executor(TRUE, <<>>, FALSE, TRUE),
            Executor(TRUE, <<Call1("resolve", Num(1))>>, FALSE, FALSE)}
      [] OTHER -> {Executor(TRUE, <<>>, FALSE, TRUE)}

Handlers(s) ==
    WorldHandlers(s.world)
      \cup (IF s.world = "promises" THEN {Returns(Prom(p)) : p \in Known(s)} ELSE {})
      \cup (IF s.world = "adopt" THEN {Returns(Prom(p)) : p \in Known(s) \cap Roots(s)}
            ELSE {})
\* the promises returned by the then calls of user code: those made outside
\* the drains
UserThens(s) ==
    {d \in 1..Len(s.state) : s.thenInfo[d].source # 0 /\ ~s.thenInfo[d].at.running}
\* whether user code keeps the promises then returns
KeepsDerived(w) == w # "adopt"
\* the two arguments of a then call: in "handlers" one handler, or both; in
\* "adopt" an onFulfilled only
HandlerPairs(s) ==
    CASE s.world = "handlers" ->
           {<<h, NoHandler>> : h \in Handlers(s)}
             \cup {<<NoHandler, h>> : h \in Handlers(s)}
             \cup {<<PlusOneHandler, Throws(TheError)>>}
      [] s.world = "adopt" -> {<<h, NoHandler>> : h \in Handlers(s)}
      [] OTHER -> Handlers(s) \X Handlers(s)

(***************************************************************************)
(* The steps.                                                              *)
(***************************************************************************)
Init ==
    /\ state = <<>>
    /\ result = <<>>
    /\ fulfillReactions = <<>>
    /\ rejectReactions = <<>>
    /\ known = <<>>
    /\ pairPromise = <<>>
    /\ alreadyResolved = <<>>
    /\ leaked = <<>>
    /\ jobs = <<>>
    /\ running = FALSE
    /\ asap = 0
    /\ calls = <<>>
    /\ drains = 0
    /\ thenInfo = <<>>
    /\ ctorInfo = <<>>
    /\ pairFirst = <<>>
    /\ settledAt = <<>>
    /\ enqueued = <<>>
    /\ executed = <<>>
    /\ assertFailed = FALSE
    /\ uncaught = FALSE
    /\ world \in Worlds

\* user code: new Promise(executor)
Construct ==
    /\ Len(state) < PromisesCap(world)
    /\ Cardinality(Roots(State)) < WorldRoots(world)
    /\ \E e \in Executors(State) :
         LET p == Len(state) + 1
             s1 == Promise(State, e)
             s2 == [s1 EXCEPT !.known[p] = ~s1.ctorInfo[p].threw]
         IN Fits(s2) /\ Commit(s2)

\* user code: a call of a resolve function it kept
CallResolve ==
    /\ \E k \in Leaked(State), v \in ResolveArgs(State) :
         LET s1 == resolve(State, k, v)
         IN Fits(s1) /\ Commit(s1)

\* user code: a call of a reject function it kept
CallReject ==
    /\ \E k \in Leaked(State), v \in RejectArgs(State) :
         LET s1 == reject(State, k, v)
         IN Fits(s1) /\ Commit(s1)

\* user code: promise.then(onFulfilled, onRejected)
Then ==
    /\ Len(state) < PromisesCap(world)
    /\ Len(pairPromise) < PairsCap(world)
    /\ Cardinality(UserThens(State)) < MaxThens
    /\ \E p \in Known(State), hs \in HandlerPairs(State) :
         LET s1 == then(State, p, hs[1], hs[2])
             s2 == [s1 EXCEPT !.known[s1.ret] = KeepsDerived(world)]
         IN Fits(s2) /\ Commit(s2)

\* a callback handed to asap is invoked: queue.run()
Run ==
    /\ asap > 0
    /\ Commit([run(State) EXCEPT !.asap = asap - 1])

Next ==
    \/ Construct
    \/ CallResolve
    \/ CallReject
    \/ Then
    \/ Run

Spec == Init /\ [][Next]_vars

\* asap (setImmediate, or process.nextTick) invokes every callback it is given:
\* weak fairness of Run, written out.  Run is enabled exactly when asap > 0, and
\* it is the only step that begins a drain.
Drained == drains' = drains + 1
FairSpec == Spec /\ (<>[](asap > 0) => []<><<Drained>>_vars)

(***************************************************************************)
(* The properties.                                                         *)
(***************************************************************************)
Promises == 1..Len(state)
Pairs == 1..Len(pairPromise)
\* the promises then has returned
Derived == {d \in Promises : thenInfo[d].source # 0}
Settled1(p) == state[p] \in {FULFILLED, REJECTED}

\* C1: the state of a promise changes at most once, from pending to fulfilled
\* or from pending to rejected only, and the result of a promise that is not
\* pending never changes.
C1_Count ==
    \A p \in Promises :
        /\ settledAt[p].count <= 1
        /\ settledAt[p].count = 1 <=> Settled1(p)
C1_Step ==
    \A p \in Promises :
        /\ state'[p] # state[p] => state[p] = PENDING /\ Settled1(p)'
        /\ state[p] # PENDING => result'[p] = result[p]
C1_StateChangesOnce == [](C1_Count) /\ [][C1_Step]_vars
\* a promise settled by the first of two calls of its executor, with a then
\* call on it and a drain behind it
C1_Witness ==
    \E p \in Promises, d \in Derived :
        /\ Settled1(p) /\ ctorInfo[p].calls >= 2
        /\ thenInfo[d].source = p /\ drains > 0

\* C2: when then(f1) and afterwards then(f2) were called on a pending promise
\* that is fulfilled later, f1 is invoked before f2.
C2_RegistrationOrder ==
    \A d1 \in Derived, d2 \in Derived :
        (/\ d1 < d2
         /\ thenInfo[d1].source = thenInfo[d2].source
         /\ thenInfo[d1].state = PENDING /\ thenInfo[d2].state = PENDING
         /\ isCallable(thenInfo[d1].onFulfilled)
         /\ isCallable(thenInfo[d2].onFulfilled))
        => \A i \in DOMAIN calls :
               calls[i].then = d2 /\ calls[i].side = "fulfill"
               => \E j \in 1..(i - 1) : calls[j].then = d1 /\ calls[j].side = "fulfill"

\* C3: of all the calls of the two functions of one pair only the first has an
\* effect: resolve with a number fulfils the promise with that number, reject
\* rejects it with its argument, and whatever state and result the promise has
\* when the first call returns settled, it keeps.
C3_FirstCallWins ==
    \A k \in Pairs :
        LET first == pairFirst[k]
            p == pairPromise[k]
        IN /\ first.fn = "resolve" /\ first.arg.type = "number"
                => state[p] = FULFILLED /\ result[p] = first.arg
           /\ first.fn = "reject"
                => state[p] = REJECTED /\ result[p] = first.arg
           /\ first.fn # "none" /\ first.after # PENDING
                => state[p] = first.after /\ result[p] = first.resultAfter
\* an executor that has called resolve(1) and then another function
C3_Witness ==
    \E p \in Promises :
        /\ ctorInfo[p].initialized /\ ctorInfo[p].calls >= 2
        /\ pairFirst[ctorInfo[p].pair].fn = "resolve"
        /\ pairFirst[ctorInfo[p].pair].arg = Num(1)
        /\ state[p] = FULFILLED /\ result[p] = Num(1)

\* C4: when the first call on a pair is resolve with the promise of the pair
\* itself, the promise is rejected with the self-resolution TypeError.
C4_SelfResolution ==
    \A k \in Pairs :
        pairFirst[k].fn = "resolve" /\ pairFirst[k].arg = Prom(pairPromise[k])
        => /\ state[pairPromise[k]] = REJECTED
           /\ result[pairPromise[k]] = SelfResolutionError
C4_Witness ==
    \E k \in Pairs :
        /\ pairFirst[k].fn = "resolve" /\ pairFirst[k].arg = Prom(pairPromise[k])
        /\ state[pairPromise[k]] = REJECTED

\* C5: a then call on a pending, fulfilled or rejected promise returns a
\* promise that did not exist before the call and is not the receiver, and
\* leaves the state and the result of the receiver as they were.
C5_ThenReturnsNew ==
    \A d \in Derived :
        /\ thenInfo[d].returned > thenInfo[d].existing
        /\ thenInfo[d].returned # thenInfo[d].source
        /\ thenInfo[d].stateAfter = thenInfo[d].state
        /\ thenInfo[d].resultAfter = thenInfo[d].result
\* then has been called on a pending receiver and on a settled one
C5_Witness ==
    \E d1 \in Derived, d2 \in Derived :
        /\ thenInfo[d1].state = PENDING
        /\ thenInfo[d2].state \in {FULFILLED, REJECTED}
        /\ thenInfo[d1].returned = d1 /\ thenInfo[d2].returned = d2

\* C6: for a promise already fulfilled with V, then(f) does not invoke f before
\* it returns; f is invoked with V, in a drain later than every drain begun
\* when then was called, and not more than once.
C6_LaterDrainOnce ==
    \A d \in Derived :
        thenInfo[d].state = FULFILLED /\ isCallable(thenInfo[d].onFulfilled)
        => /\ \A i \in DOMAIN calls :
                  calls[i].then = d
                  => /\ calls[i].side = "fulfill"
                     /\ calls[i].arg = thenInfo[d].result
                     /\ calls[i].at.drains > thenInfo[d].at.drains
           /\ Cardinality({i \in DOMAIN calls : calls[i].then = d}) <= 1

\* C7: when a handler passed to then throws E in its reaction job, the promise
\* that then call returned is rejected with E, and no exception leaves the job.
C7_ThrowRejectsDerived ==
    \A i \in DOMAIN calls :
        calls[i].handler.kind = "throw"
        => /\ state[calls[i].then] = REJECTED
           /\ result[calls[i].then] = calls[i].handler.val
           /\ ~uncaught
C7_Witness ==
    \E i \in DOMAIN calls :
        /\ calls[i].handler = Throws(TheError)
        /\ state[calls[i].then] = REJECTED
        /\ result[calls[i].then] = TheError

\* C8: when a promise is resolved with an object whose then calls its first
\* argument with 42, the promise is pending when resolve returns, and it is
\* fulfilled with 42 in a drain later than every drain begun when resolve was
\* called.
C8_ThenableDeferred ==
    \A k \in Pairs :
        pairFirst[k].fn = "resolve" /\ pairFirst[k].arg = Obj("thenResolves")
        => /\ pairFirst[k].after = PENDING
           /\ state[pairPromise[k]] # REJECTED
           /\ state[pairPromise[k]] = FULFILLED
                => /\ result[pairPromise[k]] = Answer
                   /\ settledAt[pairPromise[k]].drains > pairFirst[k].at.drains

\* C9: when the executor throws E before it has called resolve or reject, the
\* constructor returns a promise rejected with E.
C9_ExecutorThrowRejects ==
    \A p \in Promises :
        ctorInfo[p].initialized /\ ctorInfo[p].executorThrew /\ ctorInfo[p].calls = 0
        => /\ ~ctorInfo[p].threw
           /\ state[p] = REJECTED
           /\ result[p] = TheError

\* C10: when then was called with an onFulfilled that is not callable, on a
\* pending or a fulfilled source, and the source is fulfilled with V, the
\* promise then returned, once settled, is fulfilled with V.
C10_IdentityPassThrough ==
    \A d \in Derived :
        (/\ ~isCallable(thenInfo[d].onFulfilled)
         /\ state[thenInfo[d].source] = FULFILLED
         /\ state[d] # PENDING)
        => state[d] = FULFILLED /\ result[d] = result[thenInfo[d].source]

\* C11: when then was called with an onRejected that is not callable, on a
\* pending or a rejected source, and the source is rejected with R, the
\* promise then returned, once settled, is rejected with R.
C11_RethrowPassThrough ==
    \A d \in Derived :
        (/\ ~isCallable(thenInfo[d].onRejected)
         /\ state[thenInfo[d].source] = REJECTED
         /\ state[d] # PENDING)
        => state[d] = REJECTED /\ result[d] = result[thenInfo[d].source]

\* no job is waiting and no drain is in progress
Quiescent == jobs = <<>> /\ ~running
\* the first call on the pair then made for the promise d
FirstOn(d) == pairFirst[ctorInfo[d].pair]
\* the promises a handler resolved with another promise of the library
Adopting == {d \in Derived : /\ FirstOn(d).fn = "resolve"
                             /\ FirstOn(d).arg.kind = "promise"
                             /\ FirstOn(d).arg.id # d}

\* C12: when a then handler returns a promise Q, the promise then returned is
\* never fulfilled with Q itself, it is pending as long as Q is, and once Q
\* is settled and the queue has drained it has the state and result of Q.
C12_AdoptsReturnedPromise ==
    \A d \in Adopting :
        LET q == FirstOn(d).arg.id
        IN /\ result[d] # Prom(q)
           /\ state[d] # PENDING
                => Settled1(q) /\ state[d] = state[q] /\ result[d] = result[q]
           /\ Settled1(q) /\ Quiescent => state[d] # PENDING

\* the invocations of the handlers of the then call that returned d
CallsFor(d) == {i \in DOMAIN calls : calls[i].then = d}
\* d1 = p.then(v => v + 1) on a promise p fulfilled with 1, and d2 = d1.then(log)
\* called before any drain has begun since
IsChain(d1, d2) ==
    /\ thenInfo[d1].state = FULFILLED /\ thenInfo[d1].result = Num(1)
    /\ thenInfo[d1].onFulfilled = PlusOneHandler
    /\ thenInfo[d2].source = d1 /\ thenInfo[d2].state = PENDING
    /\ thenInfo[d2].onFulfilled.kind \in {"plusOne", "return"}
    /\ thenInfo[d2].at = thenInfo[d1].at /\ ~thenInfo[d1].at.running

\* C13: for the chain p.then(v => v + 1).then(log) on a promise fulfilled with
\* 1, no handler runs before a drain begins, the second handler runs in a
\* drain later than the drain of the first, and log is called with 2 and not
\* more than once.
C13_ChainTwoDrains ==
    \A d1 \in Derived, d2 \in Derived :
        IsChain(d1, d2)
        => /\ \A i \in CallsFor(d1) : calls[i].at.drains > thenInfo[d1].at.drains
           /\ \A j \in CallsFor(d2) :
                  /\ calls[j].side = "fulfill" /\ calls[j].arg = Num(2)
                  /\ \E i \in CallsFor(d1) : calls[j].at.drains > calls[i].at.drains
           /\ Cardinality(CallsFor(d2)) <= 1

\* d = p.then(null, r => r + 'y') on a promise p rejected with 'x'
IsCaught(d) ==
    /\ thenInfo[d].state = REJECTED /\ thenInfo[d].result = X
    /\ thenInfo[d].onFulfilled = NoHandler
    /\ thenInfo[d].onRejected = PlusOneHandler

\* C14: for a promise rejected with 'x', the promise then(null, r => r + 'y')
\* returns is never rejected; as long as its job waits a drain is requested
\* or in progress, and once the queue has drained it is fulfilled with 'xy'.
C14_CaughtRejectionFulfils ==
    \A d \in Derived :
        IsCaught(d)
        => /\ state[d] # REJECTED
           /\ state[d] = FULFILLED => result[d] = XY
           /\ state[d] = PENDING => jobs # <<>> /\ (asap > 0 \/ running)
\* the rejection handler has run and the derived promise is fulfilled with 'xy'
C14_Witness ==
    \E d \in Derived :
        /\ IsCaught(d) /\ state[d] = FULFILLED /\ result[d] = XY
        /\ \E i \in CallsFor(d) : calls[i].side = "reject" /\ calls[i].arg = X

\* the promises made by a constructor call whose executor was not callable
NotCallable == {p \in Promises : ~ctorInfo[p].callable}

\* C15: new Promise with an executor that is not callable throws a TypeError,
\* and the promise is not pending, has no reaction lists and no resolving
\* functions; the call enqueues nothing and requests no drain.
C15_State ==
    \A p \in NotCallable :
        /\ ctorInfo[p].threw /\ ctorInfo[p].error.kind = "typeError"
        /\ state[p] = UNDEFINED /\ result[p] = Undefined
        /\ ~fulfillReactions[p].defined /\ ~rejectReactions[p].defined
        /\ \A k \in Pairs : pairPromise[k] # p
C15_Step ==
    (Len(state') > Len(state) /\ ~ctorInfo'[Len(state')].callable)
    => jobs' = jobs /\ asap' = asap /\ pairPromise' = pairPromise
SideOf(st) == IF st = FULFILLED THEN "fulfill" ELSE "reject"

\* C16: for every then call on a pending promise, the handler that matches the
\* settlement is invoked with the settled result and not more than once, the
\* other handler is never invoked, and once the promise is settled and the
\* queue has drained the matching handler has been invoked.
C16_ReactionConsumedOnce ==
    \A d \in Derived :
        thenInfo[d].state = PENDING
        => LET p == thenInfo[d].source
           IN /\ Cardinality(CallsFor(d)) <= 1
              /\ \A i \in CallsFor(d) :
                     /\ Settled1(p)
                     /\ calls[i].side = SideOf(state[p])
                     /\ calls[i].arg = result[p]
              /\ Settled1(p) /\ Quiescent => Cardinality(CallsFor(d)) = 1

\* a handler that returns a plain value or throws, or no handler
Plain(h) ==
    \/ h.kind \in {"none", "plusOne", "throw"}
    \/ h.kind = "return" /\ h.val.type # "object"

\* C17: for every then call with plain handlers, on a promise that was pending
\* or settled, once the promise is settled, every requested drain has been
\* invoked and no job is waiting, the promise then returned is settled.
C17_DerivedSettles ==
    \A d \in Derived :
        (/\ Plain(thenInfo[d].onFulfilled) /\ Plain(thenInfo[d].onRejected)
         /\ Settled1(thenInfo[d].source)
         /\ Quiescent /\ asap = 0)
        => Settled1(d)

\* C18: at any moment at most one drain request is outstanding with the
\* scheduling primitive.
C18_OneDrainRequest == asap <= 1

\* C19: a job enqueued while a drain is in progress is not run by that drain
\* but by a later one.
C19_EnqueuedInDrainDeferred ==
    \A i \in DOMAIN executed :
        LET at == enqueued[executed[i].ticket]
        IN at.running => executed[i].at.drains > at.drains

\* C20: jobs begin to run in the order of their enqueue calls: the i-th job
\* run is the job of the i-th enqueue call, over all drains and for the jobs
\* enqueued during a drain as well.
C20_Fifo ==
    /\ \A i \in DOMAIN executed : executed[i].ticket = i
    /\ \A i \in DOMAIN jobs : jobs[i].ticket = Len(enqueued) - Len(jobs) + i
\* jobs run in two drains, one of them enqueued while a drain was in progress
C20_Witness ==
    \E i \in DOMAIN executed, j \in DOMAIN executed, k \in DOMAIN executed :
        /\ executed[i].at.drains < executed[j].at.drains
        /\ enqueued[executed[k].ticket].running

IsExecuted(t) == \E i \in DOMAIN executed : executed[i].ticket = t
IsWaiting(t) == \E i \in DOMAIN jobs : jobs[i].ticket = t

\* C21: every job passed to enqueue is run, and run once: at any moment a job
\* is either waiting in the buffer with a drain requested or has been run, never
\* both and never twice, whether it was enqueued during a drain or not; and,
\* asap invoking every callback it was given, the buffer is empty again and
\* again, so that every job is run eventually.
C21_State ==
    /\ \A i \in DOMAIN executed, j \in DOMAIN executed :
           executed[i].ticket = executed[j].ticket => i = j
    /\ \A t \in DOMAIN enqueued : IsExecuted(t) # IsWaiting(t)
    /\ jobs # <<>> => asap > 0
C21_Live == []<>(jobs = <<>>)
C21_ExecutedOnce == [](C21_State) /\ C21_Live
\* every job has been run, one of them enqueued while a drain was in progress
\* and one in a drain after that
C21_Witness ==
    /\ Len(executed) = Len(enqueued) /\ jobs = <<>>
    /\ \E i \in DOMAIN executed, j \in DOMAIN executed :
           /\ enqueued[executed[i].ticket].running
           /\ executed[j].at.drains > executed[i].at.drains

\* the jobs in which a callable of user code throws: a reaction job whose
\* handler throws, a thenable job whose then throws
Throwing(job) ==
    \/ job.type = "reaction" /\ job.reaction.handler.kind = "throw"
    \/ job.type = "thenable" /\ job.resolution.kind \in {"thenThrows", "thenResolvesThrows"}
\* the enqueue call t was made before the drain n ended
EnqueuedBy(t, n) ==
    \/ enqueued[t].drains < n
    \/ enqueued[t].drains = n /\ enqueued[t].running

\* C22: no exception leaves run: when a callable of user code throws in a job,
\* every job enqueued before the end of that drain has been run by the end of
\* it, and between the drains running is false, so that a job waiting was
\* enqueued with a request for a drain that is still to come.
C22_ThrowKeepsDraining ==
    /\ ~uncaught /\ ~running
    /\ \A i \in DOMAIN executed :
           Throwing(executed[i].job)
           => \A t \in DOMAIN enqueued :
                  EnqueuedBy(t, executed[i].at.drains)
                  => \E j \in DOMAIN executed :
                         /\ executed[j].ticket = t
                         /\ executed[j].at.drains <= executed[i].at.drains
    /\ \A t \in DOMAIN enqueued : IsWaiting(t) => ~enqueued[t].running /\ asap > 0
\* a job has thrown, another job has run after it in the same drain, and a job
\* enqueued after that drain has run in a later one
C22_Witness ==
    \E i \in DOMAIN executed, j \in DOMAIN executed, l \in DOMAIN executed :
        /\ Throwing(executed[i].job)
        /\ j > i /\ executed[j].at.drains = executed[i].at.drains
        /\ executed[l].at.drains > executed[i].at.drains
        /\ ~enqueued[executed[l].ticket].running
        /\ enqueued[executed[l].ticket].drains >= executed[i].at.drains

\* C23: a pending promise has a fulfill-reaction list and a reject-reaction
\* list of the same length, a fulfilled or rejected promise has neither, and
\* a then call on a settled promise leaves it without lists.
C23_ListsWhilePending ==
    \A p \in Promises :
        /\ state[p] = PENDING
             => /\ fulfillReactions[p].defined /\ rejectReactions[p].defined
                /\ Len(fulfillReactions[p].items) = Len(rejectReactions[p].items)
        /\ Settled1(p)
             => /\ fulfillReactions[p] = UndefinedList
                /\ rejectReactions[p] = UndefinedList
\* a promise that was pending with a reaction registered is settled, and then
\* was called on it again afterwards
C23_Witness ==
    \E d1 \in Derived, d2 \in Derived :
        /\ thenInfo[d1].source = thenInfo[d2].source
        /\ thenInfo[d1].state = PENDING
        /\ thenInfo[d2].state \in {FULFILLED, REJECTED}
        /\ ~fulfillReactions[thenInfo[d1].source].defined

\* what resolve defers to a job: an object with a callable then
IsThenable(v) == v.type = "object" /\ ~Falsy(v) /\ GetThen(v) = "function"
\* the pairs whose first call was resolve with a thenable other than the
\* promise of the pair
LockedIn == {k \in Pairs : /\ pairFirst[k].fn = "resolve"
                           /\ IsThenable(pairFirst[k].arg)
                           /\ pairFirst[k].arg # Prom(pairPromise[k])}
\* the pairs made by thenable jobs, not by the constructor
JobPairs == {k \in Pairs : \A p \in Promises : ctorInfo[p].pair # k}

\* C24: once resolve has been called with a thenable the promise is pending
\* and locked in: it is never settled through that pair, only through a pair
\* a thenable job made later for it, and a call of a function whose pair is
\* already resolved, outside the drains, changes nothing.
C24_State ==
    \A k \in LockedIn :
        /\ pairFirst[k].after = PENDING
        /\ Settled1(pairPromise[k])
             => /\ settledAt[pairPromise[k]].pair \in JobPairs
                /\ settledAt[pairPromise[k]].pair > k
                /\ pairPromise[settledAt[pairPromise[k]].pair] = pairPromise[k]
C24_Step ==
    (/\ alreadyResolved' = alreadyResolved
     /\ Len(state') = Len(state) /\ drains' = drains)
    => UNCHANGED <<state, result, fulfillReactions, rejectReactions, jobs, asap>>
C24_LockedIn == [](C24_State) /\ [][C24_Step]_vars
\* a function of a locked pair has been called again, and the promise has been
\* settled through the pair handed to then
C24_Witness ==
    \E k \in LockedIn :
        /\ pairFirst[k].again
        /\ Settled1(pairPromise[k])
        /\ settledAt[pairPromise[k]].pair \in JobPairs

\* the thenable jobs run, for a resolution of the given kind
ThenableRuns(kind) ==
    {i \in DOMAIN executed : /\ executed[i].job.type = "thenable"
                             /\ executed[i].job.resolution.kind = kind}

\* C25: when the then of the thenable a promise was resolved with throws E in
\* the thenable job without having called its arguments, the promise is
\* rejected with E; when it has called its resolve argument with 42 before it
\* throws, the promise is fulfilled with 42.
C25_ThenThrowRejects ==
    /\ \A i \in ThenableRuns("thenThrows") :
           /\ state[executed[i].job.promise] = REJECTED
           /\ result[executed[i].job.promise] = TheError
    /\ \A i \in ThenableRuns("thenResolvesThrows") :
           /\ state[executed[i].job.promise] = FULFILLED
           /\ result[executed[i].job.promise] = Answer
\* both kinds of job have run
C25_Witness ==
    \E i \in ThenableRuns("thenThrows"), j \in ThenableRuns("thenResolvesThrows") :
        /\ state[executed[i].job.promise] = REJECTED
        /\ state[executed[j].job.promise] = FULFILLED

\* the pairs whose first call was resolve with an object whose then cannot be
\* read
GetterFailed == {k \in Pairs : /\ pairFirst[k].fn = "resolve"
                               /\ pairFirst[k].arg = Obj("getterThrows")}
\* the then calls made on the promise p while it was pending
PendingThens(p) == {d \in Derived : thenInfo[d].source = p /\ thenInfo[d].state = PENDING}
IsThenableJob(job, v) == job.type = "thenable" /\ job.resolution = v

\* C26: when resolve is called with an object whose then cannot be read
\* because reading it throws E, the promise is rejected with E when resolve
\* returns, and the call enqueues no job.
C26_NoJobEnqueued ==
    \A k \in GetterFailed :
        /\ pairFirst[k].after = REJECTED /\ pairFirst[k].resultAfter = GetterError
        /\ pairFirst[k].jobs = 0

\* C26, as the code has it: the promise is rejected with E when resolve
\* returns and no thenable job is enqueued for the object; the call enqueues
\* one reaction job for each then call made on the promise while it was
\* pending, as every rejection does.
C26_GetterThrowRejects ==
    \A k \in GetterFailed :
        /\ pairFirst[k].after = REJECTED /\ pairFirst[k].resultAfter = GetterError
        /\ state[pairPromise[k]] = REJECTED /\ result[pairPromise[k]] = GetterError
        /\ settledAt[pairPromise[k]].pair = k
        /\ pairFirst[k].jobs = Cardinality(PendingThens(pairPromise[k]))
        /\ \A i \in DOMAIN jobs : ~IsThenableJob(jobs[i], pairFirst[k].arg)
        /\ \A i \in DOMAIN executed : ~IsThenableJob(executed[i].job, pairFirst[k].arg)
\* such a call was made, once on a promise without reactions and once on a
\* promise then had been called on
C26_Witness ==
    \E k1 \in GetterFailed, k2 \in GetterFailed :
        /\ pairFirst[k1].jobs = 0 /\ pairFirst[k2].jobs > 0
        /\ state[pairPromise[k1]] = REJECTED /\ state[pairPromise[k2]] = REJECTED

\* C27: the asserts on the pending state never fail: fulfillPromise and
\* rejectPromise are entered for a pending promise only, whatever executors,
\* resolving functions called again, thenables, then calls and drains do.
C27_AssertsHold == ~assertFailed
\* a function of a pair was called again after resolve with a thenable, and
\* the then of the thenable threw after it had called its resolve argument,
\* so that the job called reject on a pair already resolved
C27_Witness ==
    \E i \in ThenableRuns("thenResolvesThrows"), k \in LockedIn :
        /\ pairPromise[k] = executed[i].job.promise
        /\ pairFirst[k].again
        /\ state[pairPromise[k]] = FULFILLED
        /\ ~assertFailed

\* C28: when resolve is called with a function that has a callable then, the
\* promise is pending when resolve returns, a thenable job is enqueued, and
\* the promise is not fulfilled with the function itself.
C28_FunctionThenableAdopted ==
    \A k \in Pairs :
        pairFirst[k].fn = "resolve" /\ pairFirst[k].arg = Fun("thenResolves")
        => /\ pairFirst[k].after = PENDING
           /\ pairFirst[k].jobs = 1
           /\ result[pairPromise[k]] # pairFirst[k].arg

\* the handlers of user code, not the two then puts in their place
UserHandler(h) == h.kind \in {"return", "throw", "plusOne"}
ReactionRuns == {j \in DOMAIN executed : executed[j].job.type = "reaction"}

\* C29: a handler passed to then is invoked by a job that run executes and
\* never inside a call of then, of a resolving function or of the constructor
\* made outside the drains, for then calls on a pending promise and on a
\* settled one alike.
C29_HandlersOnlyInJobs ==
    /\ \A i \in DOMAIN calls :
           /\ calls[i].at.running
           /\ \E j \in ReactionRuns :
                  /\ executed[j].at = calls[i].at
                  /\ executed[j].job.reaction.handler = calls[i].handler
                  /\ executed[j].job.arg = calls[i].arg
    /\ Len(calls) = Cardinality(ReactionRuns)
\* a handler of user code has run for a then call on a pending promise, and
\* one for a then call on a settled promise
C29_Witness ==
    \E i \in DOMAIN calls, j \in DOMAIN calls :
        /\ UserHandler(calls[i].handler) /\ UserHandler(calls[j].handler)
        /\ thenInfo[calls[i].then].state = PENDING
        /\ thenInfo[calls[j].then].state \in {FULFILLED, REJECTED}
        /\ ~thenInfo[calls[i].then].at.running /\ ~thenInfo[calls[j].then].at.running

====
